---- MODULE Spec2Model ----
(***************************************************************************)
(* Model of src/src/api/apiService.ts: the axios instance with its request *)
(* and response interceptors (bearer injection, single-flight token        *)
(* refresh with a queue of waiting requests) and the callAPI facade with   *)
(* its error classification and cancellation.                              *)
(*                                                                         *)
(* JavaScript runs one task at a time: every action below is one task of   *)
(* the event loop together with the microtasks it schedules (promise       *)
(* continuations, the reissue of a request, the catch/finally of callAPI). *)
(***************************************************************************)
EXTENDS Integers, Sequences, FiniteSets, TLC

\* Number of callAPI invocations the application makes.
NCalls == 2

Calls == 1..NCalls

\* Longest endpoint template, and most entries of a path-parameter map.
MaxLen == 4
MaxParams == 2

\* Most requests that wait for one refresh.
MaxWaiters == 3
Waiters == 1..MaxWaiters

\* ---- values -------------------------------------------------------------
\* Tokens are opaque strings; 0 stands for "no value" (null from
\* localStorage.getItem, undefined in a response body, header not set) and
\* UndefinedStr for the string "undefined" that String(undefined) yields.
NoTok == 0
UndefinedStr == -1

\* HTTP statuses the transport can answer with; 0 stands for "no response".
NoResponse == 0
StatusOk == 200
StatusUnauthorized == 401
StatusServerFault == 500
ErrStatuses == {StatusUnauthorized, StatusServerFault}

LoginPath == "/login"
AppPath == "/"

VARIABLES
    access_token,    \* localStorage["access_token"]
    refresh_token,   \* localStorage["refresh_token"]
    defaultAuth,     \* axiosInstance.defaults.headers.common["Authorization"]
    isRefreshing,    \* module flag
    failedQueue,     \* module queue: the calls whose continuation waits
    pathname,        \* window.location.pathname
    redirects,       \* number of assignments to window.location.href
    refreshInFlight, \* refresh POSTs sent and not yet answered
    refreshTotal,    \* refresh POSTs sent so far
    call,            \* per callAPI invocation: its record (see NewCall)
    frame            \* the locals of the function walked through line by
                     \* line in SpecPath, SpecCatch and SpecQueue (NoFrame
                     \* in Spec, whose steps are whole tasks)

vars == <<access_token, refresh_token, defaultAuth, isRefreshing, failedQueue,
          pathname, redirects, refreshInFlight, refreshTotal, call, frame>>

store == <<access_token, refresh_token>>
coordinator == <<isRefreshing, failedQueue, refreshInFlight, refreshTotal>>
location == <<pathname, redirects>>

\* ---- errors and results --------------------------------------------------
\* A response body: absent (undefined or null), or an object with or without
\* a `code` field.
NoData == "undefined"
PlainBody == "{}"
CodedBody == "{code: E_LIMIT}"
Bodies == {NoData, PlainBody, CodedBody}

\* data?.code ("" stands for undefined)
codeOf(data) == IF data = CodedBody THEN "E_LIMIT" ELSE ""

\* An error as callAPI's catch sees it: its name, the status and the body of
\* its response (NoResponse, NoData when error.response is undefined) and
\* whether error.request is set.
AxiosErr(status) == [name |-> "AxiosError", status |-> status, request |-> TRUE, data |-> NoData]
CanceledErr == [name |-> "CanceledError", status |-> NoResponse, request |-> FALSE, data |-> NoData]
NoRefreshTokenErr == [name |-> "Error", status |-> NoResponse, request |-> FALSE, data |-> NoData]

Pending == [kind |-> "Pending", status |-> NoResponse, data |-> NoData, code |-> ""]
Resolved == [kind |-> "Resolved", status |-> StatusOk, data |-> NoData, code |-> ""]

Range(s) == {s[i] : i \in 1..Len(s)}

\* The record of one callAPI invocation.
\*   pc          "idle" not made yet, "sent" request on the wire, "refreshing"
\*               awaiting the refresh POST it issued, "queued" awaiting the
\*               promise whose continuation it pushed, "done" settled
\*   requireAuth axiosConfig.requireAuth
\*   hasSignal   options.signal was supplied by the caller
\*   aborted     the signal fired before the call settled
\*   retry       originalRequest._retry
\*   hdr         Authorization header of the request on the wire (NoTok when
\*               the call has no request on the wire)
\*   reissues    times the request was sent again after a refresh
\*   started     refresh episodes this call started
\*   ctlAborts   controller.abort() calls callAPI made on its own controller
\*   result      what the promise settled with
NewCall == [pc |-> "idle", requireAuth |-> FALSE, hasSignal |-> FALSE,
            aborted |-> FALSE, retry |-> FALSE, hdr |-> NoTok, reissues |-> 0,
            started |-> 0, ctlAborts |-> 0, result |-> Pending]

\* ---- callAPI: classification and settlement -----------------------------
\* A catch block that takes every failure without a response for a network
\* failure.
classify_networkDefault(error) ==
    IF error.name = "CanceledError" \/ error.name = "AbortError"
    THEN [kind |-> "Aborted", status |-> NoResponse, data |-> NoData, code |-> "ABORTED"]
    ELSE IF error.status # NoResponse
    THEN [kind |-> "ServerError", status |-> error.status, data |-> error.data,
          code |-> codeOf(error.data)]
    ELSE [kind |-> "NetworkError", status |-> NoResponse, data |-> NoData, code |-> "NETWORK_ERROR"]

\* A catch block that looks for a response before it looks at the name.
classify_responseFirst(error) ==
    IF error.status # NoResponse
    THEN [kind |-> "ServerError", status |-> error.status, data |-> error.data,
          code |-> codeOf(error.data)]
    ELSE IF error.name = "CanceledError" \/ error.name = "AbortError"
    THEN [kind |-> "Aborted", status |-> NoResponse, data |-> NoData, code |-> "ABORTED"]
    ELSE IF error.request
    THEN [kind |-> "NetworkError", status |-> NoResponse, data |-> NoData, code |-> "NETWORK_ERROR"]
    ELSE [kind |-> "SetupError", status |-> NoResponse, data |-> NoData, code |-> "SETUP_ERROR"]

\* The catch block of callAPI: the ApiError thrown for a caught error.
classify(error) ==
    IF error.name = "CanceledError" \/ error.name = "AbortError"
    THEN [kind |-> "Aborted", status |-> NoResponse, data |-> NoData, code |-> "ABORTED"]
    ELSE IF error.status # NoResponse
    THEN [kind |-> "ServerError", status |-> error.status, data |-> error.data,
          code |-> codeOf(error.data)]
    ELSE IF error.request
    THEN [kind |-> "NetworkError", status |-> NoResponse, data |-> NoData, code |-> "NETWORK_ERROR"]
    ELSE [kind |-> "SetupError", status |-> NoResponse, data |-> NoData, code |-> "SETUP_ERROR"]

\* A finally block that aborts without testing whose controller it is.
settle_abortAlways(r, res) ==
    [r EXCEPT !.pc = "done", !.result = res, !.hdr = NoTok, !.ctlAborts = @ + 1]

\* callAPI settles with res; its finally block aborts the controller it owns.
settle(r, res) ==
    [r EXCEPT !.pc = "done", !.result = res, !.hdr = NoTok,
              !.ctlAborts = IF r.hasSignal THEN @ ELSE @ + 1]

\* ---- the request pipeline -------------------------------------------------
\* `Bearer ${v}` and localStorage.setItem(k, v) turn undefined into the
\* string "undefined".
StringOf(v) == IF v = NoTok THEN UndefinedStr ELSE v

\* axios merges the instance defaults into the request config: a header the
\* config sets wins over defaults.headers.common.
mergeConfig(config_auth, defaults_auth) ==
    IF config_auth # NoTok THEN config_auth ELSE defaults_auth

\* The request interceptor: the Authorization header the request leaves
\* with, token being localStorage.getItem("access_token").
requestInterceptor(config_requireAuth, config_auth, token) ==
    IF config_requireAuth /\ token # NoTok THEN token ELSE config_auth

\* axiosInstance.request(config) for the call with record r, whose config
\* carries config_auth as Authorization header, with the stored access token
\* and the default header as they are when the request is built.  A signal
\* that has already fired makes axios reject with CanceledError before
\* anything is sent, and callAPI's catch then settles the call.
request(r, config_auth, token, defaults_auth, again) ==
    IF r.aborted
    THEN settle(r, classify(CanceledErr))
    ELSE [r EXCEPT !.pc = "sent",
                   !.hdr = requestInterceptor(r.requireAuth,
                               mergeConfig(config_auth, defaults_auth), token),
                   !.reissues = IF again THEN @ + 1 ELSE @]

\* ---- the refresh coordinator ---------------------------------------------
\* processQueue(error, token): the queued continuations it settles, in
\* order (it then empties the queue whether or not it settled any).
\* error is FALSE for null.
processQueue(error, token) ==
    IF error \/ token # NoTok THEN failedQueue ELSE << >>

\* A redirect that does not look at the current location.
redirectToLogin_always ==
    pathname' = LoginPath /\ redirects' = redirects + 1

redirectToLogin ==
    IF pathname # LoginPath
    THEN pathname' = LoginPath /\ redirects' = redirects + 1
    ELSE UNCHANGED location

\* An interceptor without the public-request guard.
isPublic_unchecked(r) == FALSE

\* Line 96: a request that does not require auth is rejected at once.
isPublic(r) == ~r.requireAuth

\* An interceptor that does not look at the retry flag.
needsRefresh_anyRetry(r, error) == error.status = StatusUnauthorized

\* Line 101: the failure is a 401 of a request not yet marked as retried.
needsRefresh(r, error) == error.status = StatusUnauthorized /\ ~r.retry

\* A coordinator that never makes a request wait.
mustWait_never == FALSE

\* Line 103: a refresh is under way, so the request waits for its outcome.
mustWait == isRefreshing

\* A catch block that rejects the trigger with the 401 its own request got.
refreshFailed_original(c, trigger, refreshError) ==
    LET rejected == Range(processQueue(TRUE, NoTok)) IN
    /\ call' = [d \in Calls |->
                   IF d = c THEN settle(trigger, classify(AxiosErr(StatusUnauthorized)))
                   ELSE IF d \in rejected THEN settle(call[d], classify(refreshError))
                   ELSE call[d]]
    /\ failedQueue' = << >>
    /\ access_token' = NoTok
    /\ refresh_token' = NoTok
    /\ redirectToLogin
    /\ isRefreshing' = FALSE
    /\ UNCHANGED defaultAuth

\* A catch block whose processQueue does not empty the queue (line 79).
refreshFailed_keepQueue(c, trigger, refreshError) ==
    LET rejected == Range(processQueue(TRUE, NoTok)) IN
    /\ call' = [d \in Calls |->
                   IF d = c THEN settle(trigger, classify(refreshError))
                   ELSE IF d \in rejected THEN settle(call[d], classify(refreshError))
                   ELSE call[d]]
    /\ failedQueue' = failedQueue
    /\ access_token' = NoTok
    /\ refresh_token' = NoTok
    /\ redirectToLogin
    /\ isRefreshing' = FALSE
    /\ UNCHANGED defaultAuth

\* Lines 141-151 and 111, 225-248: the refresh started by call c failed with
\* refreshError.  trigger is c's record with _retry set.  Every queued
\* continuation is rejected with refreshError, the tokens are removed, the
\* login redirect is attempted and the trigger's call is rejected with
\* refreshError; the rejected promises reach callAPI's catch in the same task.
refreshFailed(c, trigger, refreshError) ==
    LET rejected == Range(processQueue(TRUE, NoTok)) IN
    /\ call' = [d \in Calls |->
                   IF d = c THEN settle(trigger, classify(refreshError))
                   ELSE IF d \in rejected THEN settle(call[d], classify(refreshError))
                   ELSE call[d]]
    /\ failedQueue' = << >>
    /\ access_token' = NoTok
    /\ refresh_token' = NoTok
    /\ redirectToLogin
    /\ isRefreshing' = FALSE
    /\ UNCHANGED defaultAuth

\* Lines 92-156 up to the await: the response interceptor's error handler
\* for the request of call c (record r) failing with error.
onRejected(c, r, error) ==
    IF isPublic(r)
    THEN /\ call' = [call EXCEPT ![c] = settle(r, classify(error))]
         /\ UNCHANGED <<store, defaultAuth, coordinator, location>>
    ELSE IF needsRefresh(r, error)
    THEN IF mustWait
         THEN /\ failedQueue' = Append(failedQueue, c)
              /\ call' = [call EXCEPT ![c] = [r EXCEPT !.pc = "queued", !.hdr = NoTok]]
              /\ UNCHANGED <<store, defaultAuth, isRefreshing, refreshInFlight,
                             refreshTotal, location>>
         ELSE LET trigger == [r EXCEPT !.retry = TRUE, !.started = @ + 1,
                                       !.hdr = NoTok] IN
              IF refresh_token = NoTok
              THEN /\ refreshFailed(c, trigger, NoRefreshTokenErr)
                   /\ UNCHANGED <<refreshInFlight, refreshTotal>>
              ELSE /\ call' = [call EXCEPT ![c] = [trigger EXCEPT !.pc = "refreshing"]]
                   /\ isRefreshing' = TRUE
                   /\ refreshInFlight' = refreshInFlight + 1
                   /\ refreshTotal' = refreshTotal + 1
                   /\ UNCHANGED <<store, defaultAuth, failedQueue, location>>
    ELSE /\ call' = [call EXCEPT ![c] = settle(r, classify(error))]
         /\ UNCHANGED <<store, defaultAuth, coordinator, location>>

\* ---- callAPI: path parameters ---------------------------------------------
\* A string is a sequence of characters.  The characters templates are made
\* of, the keys and the values of a path-parameter map; Null stands for a
\* null or undefined value (it is no string).
TemplateChars == {":", "/", "a", "b"}
Templates == UNION {[1..n -> TemplateChars] : n \in 0..MaxLen}
Keys == {<<"a">>, <<"b">>, <<"a", "b">>}
Null == <<"null">>
Values == {Null, <<"b">>, <<"/">>}

\* Object.entries(pathParams): the entries in insertion order, no key twice.
ParamLists ==
    {p \in UNION {[1..n -> Keys \X Values] : n \in 0..MaxParams} :
        \A i, j \in 1..Len(p) : i # j => p[i][1] # p[j][1]}

\* \w of the regular expression, among the characters that occur here.
IsWord(ch) == ch \notin {":", "/", "%"}

\* encodeURIComponent of one character: ":" and "/" are percent-encoded,
\* letters are kept.
encodeChar(ch) ==
    IF ch = "/" THEN <<"%", "2", "F">>
    ELSE IF ch = ":" THEN <<"%", "3", "A">>
    ELSE <<ch>>

RECURSIVE encodeURIComponent(_)
encodeURIComponent(str) ==
    IF str = << >> THEN << >>
    ELSE encodeChar(Head(str)) \o encodeURIComponent(Tail(str))

\* new RegExp(`:${key}\\b`) matches in str at position i: a colon, the key,
\* and a word boundary behind it (the key ends in a word character, so the
\* boundary is the end of the string or a character that is not one).
matchesAt(str, i, key) ==
    /\ i + Len(key) <= Len(str)
    /\ str[i] = ":"
    /\ \A j \in 1..Len(key) : str[i + j] = key[j]
    /\ \/ i + Len(key) = Len(str)
       \/ ~IsWord(str[i + Len(key) + 1])

\* str.replace(regexp, by) with the "g" flag, from position i on: every
\* match, left to right, none overlapping.
RECURSIVE replaceFrom(_, _, _, _)
replaceFrom(str, i, key, by) ==
    IF i > Len(str) THEN << >>
    ELSE IF matchesAt(str, i, key)
    THEN by \o replaceFrom(str, i + Len(key) + 1, key, by)
    ELSE <<str[i]>> \o replaceFrom(str, i + 1, key, by)

replace(str, key, by) == replaceFrom(str, 1, key, by)

\* One turn of the for-of loop: the endpoint after the entry <<key, value>>.
substituteEntry(str, kv) ==
    IF kv[2] # Null
    THEN replace(str, kv[1], encodeURIComponent(kv[2]))
    ELSE str

\* No function is walked through line by line.
NoFrame == << >>

\* ---- tasks -----------------------------------------------------------------
Init ==
    /\ access_token \in {NoTok, 1}
    /\ refresh_token \in {NoTok, 1}
    /\ defaultAuth = NoTok
    /\ isRefreshing = FALSE
    /\ failedQueue = << >>
    /\ pathname \in {AppPath, LoginPath}
    /\ redirects = 0
    /\ refreshInFlight = 0
    /\ refreshTotal = 0
    /\ call = [c \in Calls |-> NewCall]
    /\ frame = NoFrame

\* The application calls callAPI (lines 165-222): the request is built and
\* handed to the axios instance.
CallAPI(c, auth, withSignal) ==
    /\ call[c].pc = "idle"
    /\ \A d \in Calls : d < c => call[d].pc # "idle"
    /\ call' = [call EXCEPT ![c] =
                  request([call[c] EXCEPT !.requireAuth = auth, !.hasSignal = withSignal],
                          NoTok, access_token, defaultAuth, FALSE)]
    /\ UNCHANGED <<store, defaultAuth, coordinator, location, frame>>

\* The transport answers the request of call c with a 2xx status: line 91,
\* then callAPI returns res.data.
Fulfilled(c) ==
    /\ call[c].pc = "sent"
    /\ call' = [call EXCEPT ![c] = settle(call[c], Resolved)]
    /\ UNCHANGED <<store, defaultAuth, coordinator, location, frame>>

\* The transport fails the request of call c: with an error status, or
\* without a response (status = NoResponse: connection failure, timeout).
Rejected(c, status) ==
    /\ call[c].pc = "sent"
    /\ onRejected(c, call[c], AxiosErr(status))
    /\ UNCHANGED frame

\* An abort that also tears down the refresh the call is awaiting.
Abort_refreshToo(c) ==
    /\ call[c].hasSignal
    /\ ~call[c].aborted
    /\ call[c].pc \in {"sent", "refreshing", "queued"}
    /\ IF call[c].pc = "sent"
       THEN onRejected(c, [call[c] EXCEPT !.aborted = TRUE], CanceledErr)
       ELSE IF call[c].pc = "refreshing"
       THEN /\ refreshFailed(c, [call[c] EXCEPT !.aborted = TRUE], CanceledErr)
            /\ refreshInFlight' = refreshInFlight - 1
            /\ UNCHANGED refreshTotal
       ELSE /\ call' = [call EXCEPT ![c].aborted = TRUE]
            /\ UNCHANGED <<store, defaultAuth, coordinator, location>>
    /\ UNCHANGED frame

\* The caller fires the signal it passed to call c.  A request on the wire is
\* aborted and fails with CanceledError; a call awaiting the refresh or the
\* queue has no request on the wire, and nothing listens to the signal.
Abort(c) ==
    /\ call[c].hasSignal
    /\ ~call[c].aborted
    /\ call[c].pc \in {"sent", "refreshing", "queued"}
    /\ IF call[c].pc = "sent"
       THEN onRejected(c, [call[c] EXCEPT !.aborted = TRUE], CanceledErr)
       ELSE /\ call' = [call EXCEPT ![c].aborted = TRUE]
            /\ UNCHANGED <<store, defaultAuth, coordinator, location>>
    /\ UNCHANGED frame

\* The token a refresh answers with: a fresh one.
NewToken == refreshTotal + 1

\* A success path that forgets to store the new access token (line 128).
RefreshFulfilled_noStore(c, access, refresh) ==
    LET resolved == Range(processQueue(FALSE, access)) IN
    /\ call[c].pc = "refreshing"
    /\ access_token' = access_token
    /\ refresh_token' = IF refresh # NoTok THEN refresh ELSE refresh_token
    /\ defaultAuth' = StringOf(access)
    /\ failedQueue' = << >>
    /\ isRefreshing' = FALSE
    /\ refreshInFlight' = refreshInFlight - 1
    /\ call' = [d \in Calls |->
                   IF d = c \/ d \in resolved
                   THEN request(call[d], StringOf(access), access_token', defaultAuth', TRUE)
                   ELSE call[d]]
    /\ UNCHANGED <<refreshTotal, location, frame>>

\* The refresh POST issued for call c is answered 2xx with a body holding
\* access and refresh as access_token and refresh_token (NoTok: the field is
\* missing).  Lines 125-139 and 150, then the continuations of the resolved
\* queue entries (lines 107-110) and every reissued request's pipeline.
RefreshFulfilled(c, access, refresh) ==
    LET resolved == Range(processQueue(FALSE, access)) IN
    /\ call[c].pc = "refreshing"
    /\ access_token' = StringOf(access)
    /\ refresh_token' = IF refresh # NoTok THEN refresh ELSE refresh_token
    /\ defaultAuth' = StringOf(access)
    /\ failedQueue' = << >>
    /\ isRefreshing' = FALSE
    /\ refreshInFlight' = refreshInFlight - 1
    /\ call' = [d \in Calls |->
                   IF d = c \/ d \in resolved
                   THEN request(call[d], StringOf(access), access_token', defaultAuth', TRUE)
                   ELSE call[d]]
    /\ UNCHANGED <<refreshTotal, location, frame>>

\* The refresh endpoint answers 2xx, with or without either token in the body.
RefreshAnswered(c) ==
    \E access \in {NoTok, NewToken}, refresh \in {NoTok, NewToken} :
        RefreshFulfilled(c, access, refresh)

\* The refresh POST issued for call c fails: with an error status, or
\* without a response.
RefreshRejected(c, status) ==
    /\ call[c].pc = "refreshing"
    /\ refreshFailed(c, call[c], AxiosErr(status))
    /\ refreshInFlight' = refreshInFlight - 1
    /\ UNCHANGED <<refreshTotal, frame>>

Next ==
    \/ \E c \in Calls, auth \in BOOLEAN, withSignal \in BOOLEAN : CallAPI(c, auth, withSignal)
    \/ \E c \in Calls : Fulfilled(c)
    \/ \E c \in Calls, status \in ErrStatuses \cup {NoResponse} : Rejected(c, status)
    \/ \E c \in Calls : Abort(c)
    \/ \E c \in Calls : RefreshAnswered(c)
    \/ \E c \in Calls, status \in ErrStatuses \cup {NoResponse} : RefreshRejected(c, status)

Spec == Init /\ [][Next]_vars

AllStatuses == ErrStatuses \cup {NoResponse}

TypeOK ==
    /\ isRefreshing \in BOOLEAN
    /\ refreshInFlight \in 0..NCalls
    /\ Range(failedQueue) \subseteq Calls

\* ---- callAPI building the endpoint, one entry at a time -------------------
client == <<store, defaultAuth, coordinator, location, call>>

\* A client nobody has used yet.
FreshClient ==
    /\ access_token = 1
    /\ refresh_token = 1
    /\ defaultAuth = NoTok
    /\ isRefreshing = FALSE
    /\ failedQueue = << >>
    /\ pathname = AppPath
    /\ redirects = 0
    /\ refreshInFlight = 0
    /\ refreshTotal = 0
    /\ call = [c \in Calls |-> NewCall]

\* callAPI is entered with a template and a path-parameter map (line 177):
\*   template    apiConfig.endpoint
\*   pathParams  Object.entries(pathParams)
\*   endpoint    the local `endpoint`
\*   entry       position of the for-of loop in pathParams
InitPath ==
    /\ FreshClient
    /\ \E t \in Templates, p \in ParamLists :
          frame = [template |-> t, pathParams |-> p, endpoint |-> t, entry |-> 1]

\* One turn of the loop of lines 178-187.
ReplaceEntry ==
    /\ frame.entry <= Len(frame.pathParams)
    /\ frame' = [frame EXCEPT
                    !.endpoint = substituteEntry(@, frame.pathParams[frame.entry]),
                    !.entry = @ + 1]
    /\ UNCHANGED client

NextPath == ReplaceEntry

SpecPath == InitPath /\ [][NextPath]_vars

\* ---- callAPI's catch block on any error -----------------------------------
ErrorNames == {"CanceledError", "AbortError", "AxiosError", "Error", "TypeError"}

\* Every error the catch block can receive: a body comes with a response.
Errors ==
    {e \in [name : ErrorNames, status : AllStatuses, request : BOOLEAN, data : Bodies] :
        e.status = NoResponse => e.data = NoData}

\* The catch block is entered:
\*   caught  the error it received
\*   thrown  the ApiError it threw (Pending: none yet)
InitCatch ==
    /\ FreshClient
    /\ \E e \in Errors : frame = [caught |-> e, thrown |-> Pending]

\* Lines 225-244.
Catch ==
    /\ frame.thrown = Pending
    /\ frame' = [frame EXCEPT !.thrown = classify(frame.caught)]
    /\ UNCHANGED client

NextCatch == Catch

SpecCatch == InitCatch /\ [][NextCatch]_vars

\* ---- the queue of one refresh, continuation by continuation ---------------
\* What processQueue is called with: (null, access_token) at line 135, where
\* access_token may be undefined, and (refreshError, null) at line 142.
NoOutcome == [error |-> FALSE, token |-> NoTok]
Outcomes == {[error |-> TRUE, token |-> NoTok], [error |-> FALSE, token |-> 1],
             [error |-> FALSE, token |-> NoTok]}

\* No refresh has run yet:
\*   arrivals  the waiting requests of this refresh, as they came
\*   settled   the continuations processQueue has settled, in order
\*   cursor    index i of the loop over failedQueue (0: not running)
\*   outcome   the arguments processQueue was called with
InitQueue ==
    /\ FreshClient
    /\ frame = [arrivals |-> << >>, settled |-> << >>, cursor |-> 0, outcome |-> NoOutcome]

others == <<store, defaultAuth, location, refreshInFlight, refreshTotal, call>>

\* A refresh starts (lines 115-116).
StartRefresh ==
    /\ ~isRefreshing
    /\ isRefreshing' = TRUE
    /\ frame' = [frame EXCEPT !.arrivals = << >>, !.settled = << >>]
    /\ UNCHANGED <<failedQueue, others>>

\* The 401 of waiting request w is seen while the refresh runs (lines
\* 103-106): its continuation is pushed.
Enqueue(w) ==
    /\ isRefreshing
    /\ frame.cursor = 0
    /\ w \notin Range(failedQueue)
    /\ failedQueue' = Append(failedQueue, w)
    /\ frame' = [frame EXCEPT !.arrivals = Append(@, w)]
    /\ UNCHANGED <<isRefreshing, others>>

\* The refresh completes and processQueue is entered.
ProcessQueue(o) ==
    /\ isRefreshing
    /\ frame.cursor = 0
    /\ frame' = [frame EXCEPT !.outcome = o, !.cursor = 1]
    /\ UNCHANGED <<isRefreshing, failedQueue, others>>

\* A loop that walks the queue from its end.
itemAt_backwards(i) == failedQueue[Len(failedQueue) + 1 - i]

\* failedQueue[i], the entry the loop handles at index i.
itemAt(i) == failedQueue[i]

\* One turn of the loop (lines 68-75).
LoopTurn ==
    /\ frame.cursor \in 1..Len(failedQueue)
    /\ frame' = [frame EXCEPT
          !.settled = IF frame.outcome.error
                      THEN Append(@, [who |-> itemAt(frame.cursor), how |-> "reject"])
                      ELSE IF frame.outcome.token # NoTok
                      THEN Append(@, [who |-> itemAt(frame.cursor), how |-> "resolve"])
                      ELSE @,
          !.cursor = @ + 1]
    /\ UNCHANGED <<isRefreshing, failedQueue, others>>

\* The loop is through: line 79, and the finally block of line 150.
EmptyQueue ==
    /\ frame.cursor = Len(failedQueue) + 1
    /\ failedQueue' = << >>
    /\ isRefreshing' = FALSE
    /\ frame' = [frame EXCEPT !.cursor = 0]
    /\ UNCHANGED others

NextQueue ==
    \/ StartRefresh
    \/ \E w \in Waiters : Enqueue(w)
    \/ \E o \in Outcomes : ProcessQueue(o)
    \/ LoopTurn
    \/ EmptyQueue

SpecQueue == InitQueue /\ [][NextQueue]_vars

\* ---- claims ---------------------------------------------------------------

\* C1: at most one refresh POST is in flight in every reachable state, and
\* when the 401 of an authenticated, not-yet-retried request is observed
\* while a refresh POST is in flight, the request joins the pending queue and
\* no refresh POST is issued for it.
C1_SingleFlight ==
    [][ /\ refreshInFlight' <= 1
        /\ \A c \in Calls :
             ( /\ refreshInFlight > 0
               /\ call[c].pc = "sent" /\ call[c].requireAuth /\ ~call[c].retry
               /\ Rejected(c, StatusUnauthorized) )
             => /\ call'[c].pc = "queued"
                /\ failedQueue' = Append(failedQueue, c)
                /\ refreshTotal' = refreshTotal
                /\ refreshInFlight' = refreshInFlight
                /\ call'[c].started = 0 ]_vars

\* A request waits in the queue while another call's refresh POST is in flight.
C1_Witness ==
    \E c, d \in Calls :
        /\ call[c].pc = "queued" /\ c \in Range(failedQueue)
        /\ call[d].pc = "refreshing" /\ refreshInFlight = 1

\* What callAPI throws for a transport failure with the given status.
ServerError(status) == [kind |-> "ServerError", status |-> status, data |-> NoData, code |-> ""]
NetworkError == [kind |-> "NetworkError", status |-> NoResponse, data |-> NoData, code |-> "NETWORK_ERROR"]
SetupError == [kind |-> "SetupError", status |-> NoResponse, data |-> NoData, code |-> "SETUP_ERROR"]
Aborted == [kind |-> "Aborted", status |-> NoResponse, data |-> NoData, code |-> "ABORTED"]
FailureOf(status) == IF status = NoResponse THEN NetworkError ELSE ServerError(status)

\* Nothing is left for the transport to answer.
Quiescent == refreshInFlight = 0 /\ \A c \in Calls : call[c].pc # "sent"

\* C2 (settlement): with a transport that answers everything it is given,
\* every call settles: once the transport has nothing left to answer, no
\* call that was made is still pending.
C2_EverySettles ==
    Quiescent => \A c \in Calls : call[c].pc \in {"idle", "done"}

\* C3: a request whose descriptor does not require auth is never on the wire
\* with an Authorization header.
C3_PublicNeverCarriesAuth ==
    \A c \in Calls :
        (call[c].pc = "sent" /\ ~call[c].requireAuth) => call[c].hdr = NoTok

\* C4: the failure of a request that does not require auth, whatever its
\* status and whatever the refresh state, settles the call with the
\* classified failure and changes nothing else: no refresh POST, no queue
\* entry, no redirect, tokens and isRefreshing as they were.
C4_PublicFailureBypasses ==
    [][ \A c \in Calls, status \in AllStatuses :
          ( /\ call[c].pc = "sent" /\ ~call[c].requireAuth
            /\ Rejected(c, status) )
          => /\ call'[c].pc = "done"
             /\ call'[c].result = FailureOf(status)
             /\ call'[c].started = 0
             /\ \A d \in Calls \ {c} : call'[d] = call[d]
             /\ UNCHANGED <<store, defaultAuth, coordinator, location>> ]_vars

\* A public call was rejected with its own 401 while another call's refresh
\* was in flight.
C4_Witness ==
    \E c, d \in Calls :
        /\ ~call[c].requireAuth /\ call[c].pc = "done"
        /\ call[c].result = ServerError(StatusUnauthorized)
        /\ d > c /\ call[d].pc = "refreshing" /\ isRefreshing
        /\ failedQueue = << >>

\* C5: over the life of one call its request is reissued after a refresh at
\* most once.
C5_AtMostOneReissue ==
    \A c \in Calls : call[c].reissues <= 1

\* C6: a 401 on an authenticated request whose retry flag is set rejects the
\* call with a server-response error of status 401, queues nothing, starts
\* no refresh and leaves the stored tokens alone, whether or not a refresh
\* is in flight.
C6_RetriedUnauthorizedRejects ==
    [][ \A c \in Calls :
          ( /\ call[c].pc = "sent" /\ call[c].requireAuth /\ call[c].retry
            /\ Rejected(c, StatusUnauthorized) )
          => /\ call'[c].pc = "done"
             /\ call'[c].result = ServerError(StatusUnauthorized)
             /\ call'[c].started = call[c].started
             /\ \A d \in Calls \ {c} : call'[d] = call[d]
             /\ UNCHANGED <<store, defaultAuth, coordinator, location>> ]_vars

\* A call that was reissued after its own refresh got a second 401 and was
\* rejected with it while another call's refresh was in flight.
C6_Witness ==
    \E c, d \in Calls :
        /\ call[c].retry /\ call[c].reissues = 1 /\ call[c].pc = "done"
        /\ call[c].result = ServerError(StatusUnauthorized)
        /\ call[d].pc = "refreshing" /\ isRefreshing
        /\ access_token # NoTok /\ refresh_token # NoTok

\* The 401 of call c's request starts a refresh episode that ends at once
\* for want of a stored refresh token (line 121).
NoRefreshTokenStep(c) ==
    /\ call[c].pc = "sent" /\ call[c].requireAuth /\ ~call[c].retry
    /\ ~isRefreshing /\ refresh_token = NoTok
    /\ Rejected(c, StatusUnauthorized)

\* C7: when the refresh POST fails with a server response while k >= 0
\* requests wait in the queue, both stored tokens are removed, each of the k
\* waiting calls is rejected with the refresh error, the coordinator is idle
\* again with an empty queue, and the login redirect happens once if the
\* location is not /login and not at all if it is.
C7_RefreshFailureClearsAndRedirects ==
    [][ \A c \in Calls, status \in ErrStatuses :
          ( call[c].pc = "refreshing" /\ RefreshRejected(c, status) )
          => /\ access_token' = NoTok /\ refresh_token' = NoTok
             /\ \A d \in Range(failedQueue) :
                    call'[d].pc = "done" /\ call'[d].result = ServerError(status)
             /\ failedQueue' = << >>
             /\ isRefreshing' = FALSE /\ refreshInFlight' = 0
             /\ pathname' = LoginPath
             /\ redirects' = IF pathname = LoginPath THEN redirects ELSE redirects + 1 ]_vars

\* A refresh answered 401 has rejected its trigger and a waiting call, removed
\* the tokens and redirected once.
C7_Witness ==
    \E c, d \in Calls :
        /\ c # d
        /\ call[c].retry /\ call[c].reissues = 0 /\ call[c].pc = "done"
        /\ call[c].result = ServerError(StatusUnauthorized)
        /\ call[d].requireAuth /\ ~call[d].retry /\ call[d].pc = "done"
        /\ call[d].result = ServerError(StatusUnauthorized)
        /\ access_token = NoTok /\ refresh_token = NoTok
        /\ ~isRefreshing /\ failedQueue = << >>
        /\ pathname = LoginPath /\ redirects = 1

\* C8 as stated: whatever way the refresh fails, the call that started it is
\* rejected with the 401 server response its own request received.
C8_TriggerGetsOriginalFailure ==
    [][ \A c \in Calls :
          ( \/ call[c].pc = "refreshing" /\ \E status \in AllStatuses : RefreshRejected(c, status)
            \/ NoRefreshTokenStep(c) )
          => call'[c].result = ServerError(StatusUnauthorized) ]_vars

\* C8 amended: the call that started the refresh is rejected with the
\* refresh's failure: a server-response error carrying the refresh
\* response's status, a network error when the refresh got no response, a
\* setup error when no refresh token was stored.
C8_TriggerGetsRefreshFailure ==
    [][ /\ refreshInFlight' < refreshInFlight =>
              \A c \in Calls, status \in AllStatuses :
                  ( call[c].pc = "refreshing" /\ RefreshRejected(c, status) )
                  => call'[c].pc = "done" /\ call'[c].result = FailureOf(status)
        /\ (~isRefreshing /\ refresh_token = NoTok) =>
              \A c \in Calls :
                  NoRefreshTokenStep(c)
                  => call'[c].pc = "done" /\ call'[c].result = SetupError ]_vars

\* The refresh a call started was answered 500 and the call was rejected
\* with that status.
C8_Witness ==
    \E c \in Calls :
        /\ call[c].retry /\ call[c].reissues = 0 /\ call[c].pc = "done"
        /\ call[c].result = ServerError(StatusServerFault)
        /\ access_token = NoTok /\ refresh_token = NoTok

\* C9: a call whose signal fired before it settled rejects with the Aborted
\* error and with no other.
C9_CancelledYieldsAborted ==
    \A c \in Calls :
        (call[c].aborted /\ call[c].pc = "done") => call[c].result = Aborted

\* C10: firing the signal of one call changes nothing of any other call and
\* nothing of the refresh state, and a refresh completes and drains the
\* queue in the same way whether or not its trigger or a waiting call has been
\* cancelled: on failure every waiting call is rejected with the refresh
\* error, on success with a token every waiting call that was not itself
\* cancelled is reissued with that token.
C10_CancelLeavesOthersAlone ==
    [][ /\ \A c \in Calls :
              ( call[c].hasSignal /\ ~call[c].aborted /\ call'[c].aborted /\ Abort(c) )
              => /\ \A d \in Calls \ {c} : call'[d] = call[d]
                 /\ UNCHANGED <<store, defaultAuth, coordinator, location>>
        /\ refreshInFlight' < refreshInFlight =>
              \A c \in Calls :
                  /\ \A status \in AllStatuses :
                        ( call[c].pc = "refreshing" /\ RefreshRejected(c, status) )
                        => /\ failedQueue' = << >>
                           /\ \A d \in Range(failedQueue) :
                                 call'[d].pc = "done" /\ call'[d].result = FailureOf(status)
                  /\ \A refresh \in {NoTok, NewToken} :
                        ( call[c].pc = "refreshing" /\ RefreshFulfilled(c, NewToken, refresh) )
                        => /\ failedQueue' = << >>
                           /\ \A d \in Range(failedQueue) \ {e \in Calls : call[e].aborted} :
                                 call'[d].pc = "sent" /\ call'[d].hdr = NewToken ]_vars

\* The trigger of a refresh was cancelled while the refresh was in flight;
\* the refresh succeeded all the same and the call that waited in the queue
\* was reissued.
C10_Witness ==
    \E c, d \in Calls :
        /\ c # d
        /\ call[c].retry /\ call[c].aborted /\ call[c].reissues = 0
        /\ call[c].pc = "done" /\ call[c].result = Aborted
        /\ call[d].requireAuth /\ ~call[d].retry /\ ~call[d].aborted
        /\ call[d].reissues = 1 /\ call[d].pc = "sent"
        /\ call[d].hdr = access_token /\ access_token > 1

\* C11: an authenticated call whose request got a 401 and whose refresh is
\* answered with a new access token has that token stored, its request sent
\* again carrying that token as bearer credential, and the coordinator idle;
\* when the reissued request is answered 200 the call resolves with the
\* response.
C11_RefreshThenReissueResolves ==
    [][ /\ refreshInFlight' < refreshInFlight =>
              \A c \in Calls, refresh \in {NoTok, NewToken} :
                  ( call[c].pc = "refreshing" /\ ~call[c].aborted
                    /\ RefreshFulfilled(c, NewToken, refresh) )
                  => /\ access_token' = NewToken
                     /\ call'[c].pc = "sent"
                     /\ call'[c].hdr = NewToken
                     /\ call'[c].reissues = call[c].reissues + 1
                     /\ isRefreshing' = FALSE
                     /\ refreshInFlight' = 0
        /\ \A c \in Calls :
              ( call[c].pc = "sent" /\ call[c].reissues > 0 /\ Fulfilled(c) )
              => /\ call'[c].pc = "done"
                 /\ call'[c].result = Resolved
                 /\ UNCHANGED <<store, coordinator>> ]_vars

\* A single call went through 401, refresh, reissue and 200: it resolved, the
\* store holds the refreshed token and the coordinator is idle.
C11_Witness ==
    /\ call[1].requireAuth /\ call[1].retry /\ call[1].reissues = 1
    /\ call[1].pc = "done" /\ call[1].result = Resolved
    /\ \A d \in Calls \ {1} : call[d].pc = "idle"
    /\ access_token = 2 /\ refreshTotal = 1
    /\ ~isRefreshing /\ failedQueue = << >>

\* C12: the pending queue is non-empty only while a refresh is in progress,
\* a refresh is in progress exactly while its POST is unanswered, every entry
\* of the queue is a distinct continuation that has not been settled, and so
\* each entry leaves the queue when the refresh it was enqueued under
\* completes and can be settled at most once.
C12_QueueOnlyWhileRefreshing ==
    /\ ~isRefreshing => failedQueue = << >>
    /\ isRefreshing <=> refreshInFlight = 1
    /\ \A i, j \in 1..Len(failedQueue) : i # j => failedQueue[i] # failedQueue[j]
    /\ \A c \in Range(failedQueue) : call[c].pc = "queued"

\* A refresh that had a request waiting on it has completed: the queue is
\* empty again and the request that waited has been reissued.
C12_Witness ==
    /\ ~isRefreshing /\ failedQueue = << >> /\ refreshTotal >= 1
    /\ \E d \in Calls :
          call[d].requireAuth /\ ~call[d].retry /\ call[d].reissues = 1

\* C13: whatever the body of a successful refresh response holds, no
\* continuation queued during that refresh is left pending once the refresh
\* has completed: a call that still waits for its queue promise has its
\* entry in the queue and a refresh under way to settle it.
C13_NoContinuationLeftPending ==
    \A c \in Calls :
        call[c].pc = "queued" => (isRefreshing /\ c \in Range(failedQueue))

\* C16: a call made without a caller signal has its own controller aborted
\* by the facade exactly once, when the call has settled and not before, so
\* neither its request nor its reissue is ever cancelled; a call made with a
\* caller signal never has a controller aborted by the facade.
C16_OwnControllerAbortedOnSettle ==
    \A c \in Calls :
        /\ call[c].ctlAborts = IF call[c].pc = "done" /\ ~call[c].hasSignal THEN 1 ELSE 0
        /\ ~call[c].hasSignal => (~call[c].aborted /\ call[c].result # Aborted)

\* A call without a caller signal went through refresh and reissue, resolved,
\* and its controller was then aborted once.
C16_Witness ==
    \E c \in Calls :
        /\ ~call[c].hasSignal /\ call[c].retry /\ call[c].reissues = 1
        /\ call[c].pc = "done" /\ call[c].result = Resolved
        /\ call[c].ctlAborts = 1

\* C17: a 401 of an authenticated, not-yet-retried request in state IDLE with
\* no stored refresh token sends nothing to the refresh endpoint, does not
\* reissue the request, clears both tokens, attempts the login redirect,
\* leaves the state IDLE and rejects the call with the setup error.
C17_NoRefreshTokenFailsFast ==
    [][ \A c \in Calls :
          NoRefreshTokenStep(c)
          => /\ refreshTotal' = refreshTotal /\ refreshInFlight' = refreshInFlight
             /\ call'[c].reissues = call[c].reissues
             /\ call'[c].pc = "done"
             /\ call'[c].result.kind = "SetupError"
             /\ call'[c].result.code = "SETUP_ERROR"
             /\ access_token' = NoTok /\ refresh_token' = NoTok
             /\ pathname' = LoginPath
             /\ redirects' = IF pathname = LoginPath THEN redirects ELSE redirects + 1
             /\ isRefreshing' = FALSE /\ failedQueue' = << >> ]_vars

\* A call whose 401 found no refresh token was rejected with the setup error
\* without any refresh POST, and the page was redirected.
C17_Witness ==
    \E c \in Calls :
        /\ call[c].retry /\ call[c].reissues = 0 /\ call[c].pc = "done"
        /\ call[c].result = SetupError
        /\ refreshTotal = 0 /\ access_token = NoTok /\ refresh_token = NoTok
        /\ pathname = LoginPath /\ redirects = 1 /\ ~isRefreshing

\* The Authorization header a request handed to the client now would leave
\* with (lines 211-222, then the request interceptor).
OutgoingAuth(auth) == requestInterceptor(auth, mergeConfig(NoTok, defaultAuth), access_token)

\* C19: while the store holds no tokens (a refresh failure removed them and
\* none has been stored since), no request issued through the client,
\* authenticated or not, carries a bearer Authorization header.
C19_NoBearerWhileStoreEmpty ==
    (access_token = NoTok /\ refresh_token = NoTok)
        => \A auth \in BOOLEAN : OutgoingAuth(auth) = NoTok

\* The authenticated calls made so far.
AuthCallsMade == {c \in Calls : call[c].pc # "idle" /\ call[c].requireAuth}

\* C20 (counting): each call starts at most one refresh episode, the refresh
\* POSTs issued never outnumber the authenticated calls made, and no call is
\* reissued more often than there are authenticated calls.
RefreshesBounded ==
    /\ \A c \in Calls : call[c].started <= 1 /\ (call[c].started = 1 <=> call[c].retry)
    /\ refreshTotal <= Cardinality(AuthCallsMade)
    /\ \A c \in Calls : call[c].reissues <= Cardinality(AuthCallsMade)

\* A call that has been made and has not settled still has an answer coming
\* that it waits for: its own request, the refresh POST it issued, or the
\* refresh POST its queue entry waits on.
AnswerOutstanding(c) ==
    \/ call[c].pc = "sent"
    \/ call[c].pc = "refreshing" /\ refreshInFlight = 1
    \/ call[c].pc = "queued" /\ refreshInFlight = 1

\* C20: refresh episodes are bounded by the authenticated calls made, and
\* with a transport that answers everything every call settles after
\* finitely many reissues: no call is left waiting for nothing.
C20_BoundedRefreshesAndTermination ==
    /\ RefreshesBounded
    /\ \A c \in Calls : call[c].pc \in {"idle", "done"} \/ AnswerOutstanding(c)

\* C14: the requests queued during one refresh are settled in the order in
\* which they arrived: the continuations processQueue has settled so far
\* are, in order, the first arrivals of this refresh, all settled the same way.
C14_SettledInArrivalOrder ==
    /\ Len(frame.settled) <= Len(frame.arrivals)
    /\ \A i \in 1..Len(frame.settled) :
          /\ frame.settled[i].who = frame.arrivals[i]
          /\ frame.settled[i].how = frame.settled[1].how

\* A refresh has completed whose waiting requests did not arrive in the
\* order of their numbers, and all were settled.
C14_Witness ==
    /\ ~isRefreshing
    /\ Len(frame.settled) = Len(frame.arrivals)
    /\ Len(frame.arrivals) >= 2
    /\ frame.arrivals[1] > frame.arrivals[2]

\* C15: the error thrown for a failure is chosen by precedence: a
\* cancellation gives Aborted (code ABORTED, no status) even when a response
\* is present; else a response gives ServerError with its status, its body
\* and the body's code; else a request without response gives NetworkError
\* (code NETWORK_ERROR, no status); else SetupError (code SETUP_ERROR).
C15_ClassifiedByPrecedence ==
    LET caught == frame.caught
        thrown == frame.thrown
        cancelled == caught.name \in {"CanceledError", "AbortError"}
        responded == caught.status # NoResponse
    IN  thrown # Pending =>
            /\ cancelled => thrown = Aborted
            /\ (~cancelled /\ responded) =>
                   /\ thrown.kind = "ServerError"
                   /\ thrown.status = caught.status
                   /\ thrown.data = caught.data
                   /\ thrown.code = codeOf(caught.data)
            /\ (~cancelled /\ ~responded /\ caught.request) => thrown = NetworkError
            /\ (~cancelled /\ ~responded /\ ~caught.request) => thrown = SetupError

\* A cancellation that came with a response was classified.
C15_Witness ==
    /\ frame.caught.name = "CanceledError"
    /\ frame.caught.status = StatusServerFault
    /\ frame.caught.data = CodedBody
    /\ frame.thrown = Aborted

\* The name of the placeholder whose colon stands before position i: the
\* longest run of word characters from i on.
RECURSIVE nameFrom(_, _)
nameFrom(str, i) ==
    IF i > Len(str) \/ ~IsWord(str[i]) THEN << >>
    ELSE <<str[i]>> \o nameFrom(str, i + 1)

\* The value a map gives a placeholder name (Null when the key is absent).
valueOf(params, name) ==
    LET hits == {i \in 1..Len(params) : params[i][1] = name}
    IN  IF hits = {} THEN Null ELSE params[CHOOSE i \in hits : TRUE][2]

\* The template with every placeholder that has a non-null value replaced
\* by the encoded value, and everything else kept, from position i on.
RECURSIVE Filled(_, _, _)
Filled(str, i, params) ==
    IF i > Len(str) THEN << >>
    ELSE IF str[i] = ":" /\ valueOf(params, nameFrom(str, i + 1)) # Null
    THEN encodeURIComponent(valueOf(params, nameFrom(str, i + 1)))
            \o Filled(str, i + Len(nameFrom(str, i + 1)) + 1, params)
    ELSE <<str[i]>> \o Filled(str, i + 1, params)

\* C18: for every template and every path-parameter map, once the loop is
\* through the endpoint is the template with each placeholder whose key has
\* a non-null value replaced by the URL-encoded value, and every other
\* placeholder (key absent, value null, or a longer name) left as it was.
C18_EveryPlaceholderSubstituted ==
    frame.entry > Len(frame.pathParams)
        => frame.endpoint = Filled(frame.template, 1, frame.pathParams)

====
